---- MODULE Spec2Model ----
(***************************************************************************)
(* Model of the location-state reconciliation hook useLocationTracker and  *)
(* of the view that consumes it (frontend/src/App.jsx).                     *)
(*                                                                         *)
(* The hook's five useState cells are the record `store`.  Every handler   *)
(* (fetch settlement, 'location-update', 'initial-data', the effects) is   *)
(* one action: the setState calls of one callback are applied together.    *)
(* Effects are flushed after the render that scheduled them and before the *)
(* next external event is processed.                                       *)
(*                                                                         *)
(* A JavaScript value that may be null is a sequence of length 0 or 1.     *)
(* A JavaScript string that is parsed is a sequence of one-character       *)
(* strings; a string that is only passed through is a TLA+ string.         *)
(***************************************************************************)
EXTENDS Integers, Sequences, FiniteSets, TLC

\* ------------------------------------------------------------------ bounds
MaxList == 2        \* longest list an 'initial-data' event carries
MaxTotal == 2       \* 'location-update' events stop once totalReceived reaches it
MaxNow == 1         \* Date.now() returns a value in 1..MaxNow
MaxInFlight == 2    \* HTTP fetches in flight at the same time

\* ------------------------------------------------------- nullable values
Null == <<>>
Some(x) == <<x>>

\* JavaScript truthiness of a nullable string: null and "" are falsy.
Truthy(v) == v # Null /\ v[1] # ""

\* ----------------------------------------------------- number parsing
\* A parsed number: NaN, or the decimal m * 10^(-e) with m not a multiple
\* of 10 unless e = 0.
NaN == [nan |-> TRUE, m |-> 0, e |-> 0]
Num(m, e) == [nan |-> FALSE, m |-> m, e |-> e]

DigitChars == <<"0", "1", "2", "3", "4", "5", "6", "7", "8", "9">>
IsDigit(c) == \E i \in 1..10 : DigitChars[i] = c
DigitVal(c) == (CHOOSE i \in 1..10 : DigitChars[i] = c) - 1

RECURSIVE SkipSpace(_)
SkipSpace(s) == IF s # <<>> /\ Head(s) = " " THEN SkipSpace(Tail(s)) ELSE s

RECURSIVE DigitPrefix(_)
DigitPrefix(s) ==
  IF s = <<>> \/ ~IsDigit(Head(s)) THEN <<>>
  ELSE <<Head(s)>> \o DigitPrefix(Tail(s))

RECURSIVE DigitsValue(_, _)
DigitsValue(s, acc) ==
  IF s = <<>> THEN acc ELSE DigitsValue(Tail(s), acc * 10 + DigitVal(Head(s)))

RECURSIVE Reduce(_, _)
Reduce(m, e) == IF e > 0 /\ m % 10 = 0 THEN Reduce(m \div 10, e - 1) ELSE Num(m, e)

\* parseInt(string): leading blanks, an optional sign, the longest run of
\* decimal digits; NaN when there is no digit.
parseInt(s) ==
  LET t == SkipSpace(s)
      signed == t # <<>> /\ Head(t) \in {"-", "+"}
      sign == IF t # <<>> /\ Head(t) = "-" THEN -1 ELSE 1
      d == DigitPrefix(IF signed THEN Tail(t) ELSE t)
  IN IF d = <<>> THEN NaN ELSE Num(sign * DigitsValue(d, 0), 0)

\* parseFloat(string): leading blanks, an optional sign, digits, an optional
\* "." and digits; NaN when there is no digit.  (Exponents and the literal
\* Infinity do not occur in the inputs used here.)
parseFloat(s) ==
  LET t == SkipSpace(s)
      signed == t # <<>> /\ Head(t) \in {"-", "+"}
      sign == IF t # <<>> /\ Head(t) = "-" THEN -1 ELSE 1
      u == IF signed THEN Tail(t) ELSE t
      ip == DigitPrefix(u)
      rest == SubSeq(u, Len(ip) + 1, Len(u))
      fp == IF rest # <<>> /\ Head(rest) = "." THEN DigitPrefix(Tail(rest)) ELSE <<>>
  IN IF ip = <<>> /\ fp = <<>> THEN NaN
     ELSE Reduce(sign * DigitsValue(ip \o fp, 0), Len(fp))

\* new Date(n).toLocaleString(): the date and the time of day down to the
\* second (milliseconds are not shown); "Invalid Date" for NaN.
MsPerSecond == 1000
toLocaleString(n) ==
  IF n.nan THEN [valid |-> FALSE, second |-> 0]
  ELSE [valid |-> TRUE, second |-> n.m \div MsPerSecond]

\* ------------------------------------------------------- normalisation
\* The record built on the HTTP path.
FetchLocation(d) ==
  [id |-> d.id,
   latitude |-> parseFloat(d.latitude),
   longitude |-> parseFloat(d.longitude),
   timestamp |-> parseInt(d.timestamp_value),
   created_at |-> d.created_at,
   formattedDate |-> toLocaleString(parseInt(d.timestamp_value))]

\* The record built by the 'location-update' handler.
UpdateLocation(d) ==
  [id |-> d.id,
   latitude |-> parseFloat(d.latitude),
   longitude |-> parseFloat(d.longitude),
   timestamp |-> parseInt(d.timestamp_value),
   created_at |-> d.created_at,
   formattedDate |-> toLocaleString(parseInt(d.timestamp_value))]

\* A snapshot normalisation that float-parses the timestamp.
InitialLocation_FloatTimestamp(item) ==
  [id |-> item.id,
   latitude |-> parseFloat(item.latitude),
   longitude |-> parseFloat(item.longitude),
   timestamp |-> parseFloat(item.timestamp_value),
   created_at |-> item.created_at,
   formattedDate |-> toLocaleString(parseFloat(item.timestamp_value))]

\* The record built for one item of an 'initial-data' list.
InitialLocation(item) ==
  [id |-> item.id,
   latitude |-> parseFloat(item.latitude),
   longitude |-> parseFloat(item.longitude),
   timestamp |-> parseInt(item.timestamp_value),
   created_at |-> item.created_at,
   formattedDate |-> toLocaleString(parseInt(item.timestamp_value))]

\* response.data.map(item => ...)
MapInitial(list) == [i \in 1..Len(list) |-> InitialLocation(list[i])]

\* ------------------------------------------------------------ the inputs
\* Raw records as the server sends them.  RawNew is the newer reading;
\* RawOld carries an older timestamp_value with trailing garbage and a
\* latitude that does not parse.
RawNew ==
  [id |-> "a1",
   latitude |-> <<"4", "0", ".", "5", "0">>,
   longitude |-> <<"-", "7", "4">>,
   timestamp_value |-> <<"1", "7", "0", "0">>,
   created_at |-> "2023-11-14T00:00:00Z"]
RawOld ==
  [id |-> "a2",
   latitude |-> <<"a", "b", "c">>,
   longitude |-> <<" ", "7", ".", "2", "5">>,
   timestamp_value |-> <<"1", "5", "0", "0", "x">>,
   created_at |-> "2023-11-13T00:00:00Z"]
RawRecords == {RawNew, RawOld}

RawLists == UNION {[1..n -> RawRecords] : n \in 0..MaxList}

\* Payloads of the 'location-update' event: { data } or a payload without it.
UpdateEvents == {[data |-> Null]} \cup {[data |-> Some(r)] : r \in RawRecords}

\* Payloads of the 'initial-data' event: { success, data?, error? }.
InitialDataEvents ==
  {[success |-> TRUE, data |-> d, error |-> Null] : d \in {Null} \cup {Some(l) : l \in RawLists}}
  \cup {[success |-> FALSE, data |-> Null, error |-> e] : e \in {Null, Some(""), Some("Database unavailable")}}

\* What fetch() and response.json() can produce: a rejected promise, a
\* response that is not ok, or a JSON body { success, data? }.
FetchOutcomes ==
  {[rejected |-> TRUE, ok |-> FALSE, message |-> "Failed to fetch", body |-> Null]}
  \cup {[rejected |-> FALSE, ok |-> FALSE, message |-> "HTTP 500: Internal Server Error", body |-> Null]}
  \cup {[rejected |-> FALSE, ok |-> TRUE, message |-> "", body |-> Some([success |-> s, data |-> d])] :
          s \in BOOLEAN, d \in {Null} \cup {Some(r) : r \in RawRecords}}

SocketErrors == {Null, Some("xhr poll error")}
EventNames == {"location-update", "initial-data"}

\* ------------------------------------------------------------- the state
VARIABLES
  store,        \* the useState cells: latestLocation, allLocations, loading, error, stats
  isConnected,  \* useSocket(): the live connection is up
  socketError,  \* useSocket(): its error, or null
  listeners,    \* handlers registered per event name
  cleanups,     \* the listener effect's last run returned its cleanup function
  mounted,      \* the first commit's effects have run
  deps,         \* the effect dependencies of the last commit whose effects ran
  inFlight,     \* fetchInitialData() calls awaiting their response: mount, refresh
  lastEvent,    \* history: the step that led to this state
  hist          \* history: summary of the events processed so far

vars == <<store, isConnected, socketError, listeners, cleanups, mounted, deps,
          inFlight, lastEvent, hist>>

latestLocation == store.latestLocation
allLocations == store.allLocations
loading == store.loading
error == store.error
stats == store.stats


\* ------------------------------------------------------ the hook's code
\* A refresh that brings the spinner back.
FetchStart_SetsLoading(S) == [S EXCEPT !.error = Null, !.loading = TRUE]

\* fetchInitialData up to its first await: setError(null).
FetchStart(S) == [S EXCEPT !.error = Null]

\* A settlement that is dropped when a live-push event has stored data first.
FetchSettled_SuppressLate(S, o, t) ==
  IF o.rejected \/ ~o.ok \/ o.body = Null
  THEN [S EXCEPT !.error = Some("Connection error: " \o o.message),
                 !.loading = FALSE]
  ELSE LET data == o.body[1] IN
       IF data.success /\ data.data # Null /\ S.latestLocation = Null
       THEN LET location == FetchLocation(data.data[1]) IN
            [S EXCEPT !.latestLocation = Some(location),
                      !.allLocations = <<location>>,
                      !.stats = [@ EXCEPT !.totalReceived = 1,
                                          !.lastUpdateTime = Some(t)],
                      !.loading = FALSE]
       ELSE [S EXCEPT !.loading = FALSE]

\* A settlement whose catch block also drops the data.
FetchSettled_ClearOnFailure(S, o, t) ==
  IF o.rejected \/ ~o.ok \/ o.body = Null
  THEN [S EXCEPT !.error = Some("Connection error: " \o o.message),
                 !.latestLocation = Null,
                 !.allLocations = <<>>,
                 !.loading = FALSE]
  ELSE LET data == o.body[1] IN
       IF data.success /\ data.data # Null
       THEN LET location == FetchLocation(data.data[1]) IN
            [S EXCEPT !.latestLocation = Some(location),
                      !.allLocations = <<location>>,
                      !.stats = [@ EXCEPT !.totalReceived = 1,
                                          !.lastUpdateTime = Some(t)],
                      !.loading = FALSE]
       ELSE [S EXCEPT !.loading = FALSE]

\* A settlement that empties the store when the response has no payload.
FetchSettled_ClearOnEmpty(S, o, t) ==
  IF o.rejected \/ ~o.ok \/ o.body = Null
  THEN [S EXCEPT !.error = Some("Connection error: " \o o.message),
                 !.loading = FALSE]
  ELSE LET data == o.body[1] IN
       IF data.success /\ data.data # Null
       THEN LET location == FetchLocation(data.data[1]) IN
            [S EXCEPT !.latestLocation = Some(location),
                      !.allLocations = <<location>>,
                      !.stats = [@ EXCEPT !.totalReceived = 1,
                                          !.lastUpdateTime = Some(t)],
                      !.loading = FALSE]
       ELSE [S EXCEPT !.latestLocation = Null,
                      !.allLocations = <<>>,
                      !.loading = FALSE]

\* A settlement without the finally block: loading ends only with a payload.
FetchSettled_NoFinally(S, o, t) ==
  IF o.rejected \/ ~o.ok \/ o.body = Null
  THEN [S EXCEPT !.error = Some("Connection error: " \o o.message)]
  ELSE LET data == o.body[1] IN
       IF data.success /\ data.data # Null
       THEN LET location == FetchLocation(data.data[1]) IN
            [S EXCEPT !.latestLocation = Some(location),
                      !.allLocations = <<location>>,
                      !.stats = [@ EXCEPT !.totalReceived = 1,
                                          !.lastUpdateTime = Some(t)],
                      !.loading = FALSE]
       ELSE S

\* fetchInitialData from the settlement of fetch() to the end of `finally`.
\* The catch block is entered when fetch() rejects, when the response is not
\* ok, and when reading a property of a null body throws.
FetchSettled(S, o, t) ==
  IF o.rejected \/ ~o.ok \/ o.body = Null
  THEN [S EXCEPT !.error = Some("Connection error: " \o o.message),
                 !.loading = FALSE]
  ELSE LET data == o.body[1] IN
       IF data.success /\ data.data # Null
       THEN LET location == FetchLocation(data.data[1]) IN
            [S EXCEPT !.latestLocation = Some(location),
                      !.allLocations = <<location>>,
                      !.stats = [@ EXCEPT !.totalReceived = 1,
                                          !.lastUpdateTime = Some(t)],
                      !.loading = FALSE]
       ELSE [S EXCEPT !.loading = FALSE]

\* An update handler that keeps the reading with the larger timestamp.
handleLocationUpdate_NewerOnly(S, data, t) ==
  IF data.data # Null
  THEN LET newLocation == UpdateLocation(data.data[1])
           newer == \/ S.latestLocation = Null
                    \/ newLocation.timestamp.m >= S.latestLocation[1].timestamp.m
       IN [S EXCEPT !.latestLocation = IF newer THEN Some(newLocation) ELSE @,
                    !.stats = [totalReceived |-> S.stats.totalReceived + 1,
                               lastUpdateTime |-> Some(t)],
                    !.error = Null]
  ELSE S

\* An update handler that forgets setError(null).
handleLocationUpdate_KeepError(S, data, t) ==
  IF data.data # Null
  THEN [S EXCEPT !.latestLocation = Some(UpdateLocation(data.data[1])),
                 !.stats = [totalReceived |-> S.stats.totalReceived + 1,
                            lastUpdateTime |-> Some(t)]]
  ELSE S

\* The variant of the update handler that leaves the counter alone.
handleLocationUpdate_NoCount(S, data, t) ==
  IF data.data # Null
  THEN [S EXCEPT !.latestLocation = Some(UpdateLocation(data.data[1])),
                 !.stats = [totalReceived |-> S.stats.totalReceived,
                            lastUpdateTime |-> Some(t)],
                 !.error = Null]
  ELSE S

\* An update handler that also puts the new reading in front of the history.
handleLocationUpdate_Append(S, data, t) ==
  IF data.data # Null
  THEN LET newLocation == UpdateLocation(data.data[1]) IN
       [S EXCEPT !.latestLocation = Some(newLocation),
                 !.allLocations = <<newLocation>> \o @,
                 !.stats = [totalReceived |-> S.stats.totalReceived + 1,
                            lastUpdateTime |-> Some(t)],
                 !.error = Null]
  ELSE S

\* An update handler that also ends loading.
handleLocationUpdate_EndsLoading(S, data, t) ==
  IF data.data # Null
  THEN [S EXCEPT !.latestLocation = Some(UpdateLocation(data.data[1])),
                 !.stats = [totalReceived |-> S.stats.totalReceived + 1,
                            lastUpdateTime |-> Some(t)],
                 !.error = Null,
                 !.loading = FALSE]
  ELSE S

handleLocationUpdate(S, data, t) ==
  IF data.data # Null
  THEN LET newLocation == UpdateLocation(data.data[1]) IN
       [S EXCEPT !.latestLocation = Some(newLocation),
                 !.stats = [totalReceived |-> S.stats.totalReceived + 1,
                            lastUpdateTime |-> Some(t)],
                 !.error = Null]
  ELSE S

\* A snapshot handler that takes the last entry of the list as the latest.
handleInitialData_LatestLast(S, response, t) ==
  IF response.success /\ response.data # Null /\ Len(response.data[1]) > 0
  THEN LET locations == MapInitial(response.data[1]) IN
       [S EXCEPT !.latestLocation = Some(locations[Len(locations)]),
                 !.allLocations = locations,
                 !.stats = [@ EXCEPT !.totalReceived = Len(locations),
                                     !.lastUpdateTime = Some(t)],
                 !.loading = FALSE]
  ELSE IF response.success
  THEN [S EXCEPT !.loading = FALSE]
  ELSE [S EXCEPT !.error = Some(IF Truthy(response.error) THEN response.error[1]
                                ELSE "Error getting initial data"),
                 !.loading = FALSE]

\* A snapshot handler that empties the store when the list is empty.
handleInitialData_ResetOnEmpty(S, response, t) ==
  IF response.success /\ response.data # Null /\ Len(response.data[1]) > 0
  THEN LET locations == MapInitial(response.data[1]) IN
       [S EXCEPT !.latestLocation = Some(locations[1]),
                 !.allLocations = locations,
                 !.stats = [@ EXCEPT !.totalReceived = Len(locations),
                                     !.lastUpdateTime = Some(t)],
                 !.loading = FALSE]
  ELSE IF response.success
  THEN [S EXCEPT !.allLocations = <<>>,
                 !.stats = [@ EXCEPT !.totalReceived = 0],
                 !.loading = FALSE]
  ELSE [S EXCEPT !.error = Some(IF Truthy(response.error) THEN response.error[1]
                                ELSE "Error getting initial data"),
                 !.loading = FALSE]

\* A snapshot handler that forgets stats.lastUpdateTime.
handleInitialData_NoTime(S, response, t) ==
  IF response.success /\ response.data # Null /\ Len(response.data[1]) > 0
  THEN LET locations == MapInitial(response.data[1]) IN
       [S EXCEPT !.latestLocation = Some(locations[1]),
                 !.allLocations = locations,
                 !.stats = [@ EXCEPT !.totalReceived = Len(locations)],
                 !.loading = FALSE]
  ELSE IF response.success
  THEN [S EXCEPT !.loading = FALSE]
  ELSE [S EXCEPT !.error = Some(IF Truthy(response.error) THEN response.error[1]
                                ELSE "Error getting initial data"),
                 !.loading = FALSE]

handleInitialData(S, response, t) ==
  IF response.success /\ response.data # Null /\ Len(response.data[1]) > 0
  THEN LET locations == MapInitial(response.data[1]) IN
       [S EXCEPT !.latestLocation = Some(locations[1]),
                 !.allLocations = locations,
                 !.stats = [@ EXCEPT !.totalReceived = Len(locations),
                                     !.lastUpdateTime = Some(t)],
                 !.loading = FALSE]
  ELSE IF response.success
  THEN [S EXCEPT !.loading = FALSE]
  ELSE [S EXCEPT !.error = Some(IF Truthy(response.error) THEN response.error[1]
                                ELSE "Error getting initial data"),
                 !.loading = FALSE]

\* A socket-error effect without the !error test.
socketErrorEffect_Overwrite(S, se) ==
  IF Truthy(se)
  THEN [S EXCEPT !.error = Some("WebSocket error: " \o se[1])]
  ELSE S

\* The socket-error effect: if (socketError && !error) setError(...).
socketErrorEffect(S, se) ==
  IF Truthy(se) /\ ~Truthy(S.error)
  THEN [S EXCEPT !.error = Some("WebSocket error: " \o se[1])]
  ELSE S

\* useSocket().on(name, handler) registers the handler and returns the
\* function that removes it again.
on(L, name) == [L EXCEPT ![name] = @ + 1]
off(L, name) == [L EXCEPT ![name] = IF @ > 0 THEN @ - 1 ELSE 0]

\* A listener effect that returns no cleanup function.
listenerEffect_NoCleanup(L, hadCleanup, connected) ==
  IF ~connected THEN [listeners |-> L, cleanups |-> FALSE]
  ELSE [listeners |-> on(on(L, "location-update"), "initial-data"),
        cleanups |-> FALSE]

\* The listener effect: the cleanup of its previous run, then its body.
listenerEffect(L, hadCleanup, connected) ==
  LET cleaned == IF hadCleanup THEN off(off(L, "location-update"), "initial-data") ELSE L
  IN IF ~connected THEN [listeners |-> cleaned, cleanups |-> FALSE]
     ELSE [listeners |-> on(on(cleaned, "location-update"), "initial-data"),
           cleanups |-> TRUE]

\* A handler registered n times runs n times for one event.
RECURSIVE Dispatch(_, _, _, _, _)
Dispatch(name, n, S, ev, t) ==
  IF n = 0 THEN S
  ELSE Dispatch(name, n - 1,
                IF name = "location-update" THEN handleLocationUpdate(S, ev, t)
                ELSE handleInitialData(S, ev, t),
                ev, t)

\* A view that shows the latest location whenever there is one.
View_DataFirst(S) ==
  IF S.loading THEN "loading"
  ELSE IF S.latestLocation # Null THEN "has-data"
  ELSE IF Truthy(S.error) THEN "error"
  ELSE "no-data"

\* The branch of the view that App renders.
View(S) ==
  IF S.loading THEN "loading"
  ELSE IF Truthy(S.error) THEN "error"
  ELSE IF S.latestLocation # Null THEN "has-data"
  ELSE "no-data"

\* ------------------------------------------------------------- history
\* What the statements below call an accepting event.
AcceptingFetch(o) == ~o.rejected /\ o.ok /\ o.body # Null /\ o.body[1].success /\ o.body[1].data # Null
AcceptingInitial(ev) == ev.success /\ ev.data # Null /\ Len(ev.data[1]) > 0
AcceptingUpdate(ev) == ev.data # Null
FailedFetch(o) == o.rejected \/ ~o.ok \/ o.body = Null

Step(kind, arg, times) == [kind |-> kind, arg |-> arg, times |-> times]

\* The values Date.now() can return.
Times == 1..MaxNow

\* ---------------------------------------------------------------- Init
Init ==
  /\ store = [latestLocation |-> Null, allLocations |-> <<>>, loading |-> TRUE,
              error |-> Null,
              stats |-> [totalReceived |-> 0, lastUpdateTime |-> Null]]
  /\ isConnected = FALSE
  /\ socketError = Null
  /\ listeners = [n \in EventNames |-> 0]
  /\ cleanups = FALSE
  /\ mounted = FALSE
  /\ deps = [isConnected |-> FALSE, socketError |-> Null, error |-> Null]
  /\ inFlight = [mount |-> 0, refresh |-> 0]
  /\ lastEvent = [kind |-> "init", arg |-> Null, times |-> 0]
  /\ hist = [accepted |-> Null, fetchFailed |-> FALSE, noInitial |-> TRUE,
             nUpdates |-> 0, terminal |-> FALSE, connects |-> 0]

\* ------------------------------------------------------------- actions
EffectsPending ==
  \/ ~mounted
  \/ deps # [isConnected |-> isConnected, socketError |-> socketError, error |-> store.error]
Settled == ~EffectsPending

\* The socket-error effect depends on socketError alone.
socketEffectDue_SocketOnly(d, se, err) == d.socketError # se

\* The socket-error effect is run again when one of its dependencies
\* [socketError, error] differs from the previous commit's.
socketEffectDue(d, se, err) == d.socketError # se \/ d.error # err

\* The effects of one commit, in the order of their declaration: the
\* listener effect when isConnected changed, the mount effect once, the
\* socket-error effect when socketError or error changed.
FlushEffects ==
  /\ EffectsPending
  /\ LET runListener == ~mounted \/ deps.isConnected # isConnected
         runSocket == ~mounted \/ socketEffectDue(deps, socketError, store.error)
         l == IF runListener THEN listenerEffect(listeners, cleanups, isConnected)
              ELSE [listeners |-> listeners, cleanups |-> cleanups]
         s1 == IF ~mounted THEN FetchStart(store) ELSE store
         s2 == IF runSocket THEN socketErrorEffect(s1, socketError) ELSE s1
     IN /\ listeners' = l.listeners
        /\ cleanups' = l.cleanups
        /\ store' = s2
        /\ inFlight' = IF ~mounted THEN [inFlight EXCEPT !.mount = 1] ELSE inFlight
        /\ lastEvent' = Step("effects",
                              [listener |-> runListener, socket |-> runSocket,
                               again |-> deps.error # Null /\ s2.error # store.error],
                              1)
  /\ mounted' = TRUE
  /\ deps' = [isConnected |-> isConnected, socketError |-> socketError, error |-> store.error]
  /\ UNCHANGED <<isConnected, socketError, hist>>

\* The Retry / Refresh button: refresh = fetchInitialData.
Refresh ==
  /\ Settled
  /\ View(store) \in {"error", "no-data"}
  /\ inFlight.mount + inFlight.refresh < MaxInFlight
  /\ store' = FetchStart(store)
  /\ inFlight' = [inFlight EXCEPT !.refresh = @ + 1]
  /\ lastEvent' = Step("refresh", Null, 1)
  /\ UNCHANGED <<isConnected, socketError, listeners, cleanups, mounted, deps, hist>>

FetchSettle ==
  /\ Settled
  /\ \E k \in {"mount", "refresh"}, o \in FetchOutcomes, now \in Times :
       /\ inFlight[k] > 0
       /\ inFlight' = [inFlight EXCEPT ![k] = @ - 1]
       /\ store' = FetchSettled(store, o, now)
       /\ lastEvent' = Step("fetch-settled",
                             [fetch |-> k, outcome |-> o,
                              late |-> /\ k = "mount"
                                       /\ hist.accepted # Null
                                       /\ hist.accepted[1].kind \in {"initial", "update"}],
                             1)
       /\ hist' = [hist EXCEPT
                     !.accepted = IF AcceptingFetch(o) THEN Some([kind |-> "fetch", raw |-> o.body[1].data[1]]) ELSE @,
                     !.fetchFailed = @ \/ FailedFetch(o),
                     !.noInitial = FALSE,
                     !.nUpdates = 0,
                     !.terminal = @ \/ k = "mount"]
  /\ UNCHANGED <<isConnected, socketError, listeners, cleanups, mounted, deps>>

LocationUpdateEvent ==
  /\ Settled
  /\ isConnected
  /\ listeners["location-update"] > 0
  /\ \E ev \in UpdateEvents, now \in Times :
       /\ AcceptingUpdate(ev) => store.stats.totalReceived < MaxTotal
       /\ store' = Dispatch("location-update", listeners["location-update"], store, ev, now)
       /\ lastEvent' = Step("location-update", ev, listeners["location-update"])
       /\ hist' = [hist EXCEPT
                     !.accepted = IF AcceptingUpdate(ev) THEN Some([kind |-> "update", raw |-> ev.data[1]]) ELSE @,
                     !.nUpdates = IF AcceptingUpdate(ev) /\ hist.noInitial THEN @ + 1 ELSE @]
  /\ UNCHANGED <<isConnected, socketError, listeners, cleanups, mounted, deps, inFlight>>

InitialDataFrom(events) ==
  /\ Settled
  /\ isConnected
  /\ listeners["initial-data"] > 0
  /\ \E ev \in events, now \in Times :
       /\ store' = Dispatch("initial-data", listeners["initial-data"], store, ev, now)
       /\ lastEvent' = Step("initial-data", ev, listeners["initial-data"])
       /\ hist' = [hist EXCEPT
                     !.accepted = IF AcceptingInitial(ev) THEN Some([kind |-> "initial", raw |-> ev.data[1][1]]) ELSE @,
                     !.noInitial = FALSE,
                     !.nUpdates = 0,
                     !.terminal = TRUE]
  /\ UNCHANGED <<isConnected, socketError, listeners, cleanups, mounted, deps, inFlight>>

InitialDataEvent == InitialDataFrom(InitialDataEvents)

\* The transport hook: the connection comes up, goes down, reports an error
\* or clears it.
SocketConnect ==
  /\ Settled
  /\ ~isConnected
  /\ isConnected' = TRUE
  /\ lastEvent' = Step("connect", Null, 0)
  /\ hist' = [hist EXCEPT !.connects = IF @ = 0 THEN 1 ELSE 2]
  /\ UNCHANGED <<store, socketError, listeners, cleanups, mounted, deps, inFlight>>

SocketDisconnect ==
  /\ Settled
  /\ isConnected
  /\ isConnected' = FALSE
  /\ lastEvent' = Step("disconnect", Null, 0)
  /\ UNCHANGED <<store, socketError, listeners, cleanups, mounted, deps, inFlight, hist>>

SocketErrorChange ==
  /\ Settled
  /\ \E e \in SocketErrors :
       /\ e # socketError
       /\ socketError' = e
  /\ lastEvent' = Step("socket-error", Null, 0)
  /\ UNCHANGED <<store, isConnected, listeners, cleanups, mounted, deps, inFlight, hist>>

Next ==
  \/ FlushEffects
  \/ Refresh
  \/ FetchSettle
  \/ LocationUpdateEvent
  \/ InitialDataEvent
  \/ SocketConnect
  \/ SocketDisconnect
  \/ SocketErrorChange

Spec == Init /\ [][Next]_vars


\* React always runs the effects of a commit; nothing obliges the network or
\* the server to answer.
LiveSpec == Spec /\ WF_vars(FlushEffects)

\* ------------------------------------------- the normalisation on its own
\* Raw records over a wider range of field texts: numbers with a sign, a
\* fraction, leading blanks or trailing garbage, texts without a digit and
\* the empty text.
NormRawRecords ==
  {[id |-> i, latitude |-> la, longitude |-> lo, timestamp_value |-> ts,
    created_at |-> "2023-11-14T00:00:00Z"] :
     i \in {"a1", "a2"},
     la \in {<<"4", "0", ".", "5", "0">>, <<"a", "b", "c">>, <<"-", ".", "5">>, <<>>},
     lo \in {<<"-", "7", "4">>, <<" ", "7", ".", "2", "5">>},
     ts \in {<<"1", "7", "0", "0">>, <<"1", "5", "0", "0", "x">>,
             <<"1", "5", "0", "0", ".", "7">>, <<"-", "1">>, <<"x">>}}

\* A fresh store and one raw record that has not been normalised yet.
NormInit ==
  /\ store = [latestLocation |-> Null, allLocations |-> <<>>, loading |-> TRUE,
              error |-> Null,
              stats |-> [totalReceived |-> 0, lastUpdateTime |-> Null]]
  /\ isConnected = FALSE
  /\ socketError = Null
  /\ listeners = [n \in EventNames |-> 0]
  /\ cleanups = FALSE
  /\ mounted = FALSE
  /\ deps = [isConnected |-> FALSE, socketError |-> Null, error |-> Null]
  /\ inFlight = [mount |-> 0, refresh |-> 0]
  /\ lastEvent = [kind |-> "raw", arg |-> Null, times |-> 0]
  /\ \E r \in NormRawRecords :
       hist = [accepted |-> Some([kind |-> "raw", raw |-> r]), fetchFailed |-> FALSE,
               noInitial |-> TRUE, nUpdates |-> 0, terminal |-> FALSE, connects |-> 0]

NormRaw == hist.accepted[1].raw
NormFrame == UNCHANGED <<isConnected, socketError, listeners, cleanups, mounted,
                         deps, inFlight, hist>>

\* The record arrives as the body of the HTTP response.
NormFetch ==
  /\ lastEvent.kind = "raw"
  /\ \E now \in Times :
       store' = FetchSettled(store,
                             [rejected |-> FALSE, ok |-> TRUE, message |-> "",
                              body |-> Some([success |-> TRUE, data |-> Some(NormRaw)])],
                             now)
  /\ lastEvent' = Step("fetch-settled", Null, 1)
  /\ NormFrame

\* The record arrives in a 'location-update' event.
NormUpdate ==
  /\ lastEvent.kind = "raw"
  /\ \E now \in Times :
       store' = handleLocationUpdate(store, [data |-> Some(NormRaw)], now)
  /\ lastEvent' = Step("location-update", Null, 1)
  /\ NormFrame

\* The record arrives as the only entry of an 'initial-data' list.
NormInitial ==
  /\ lastEvent.kind = "raw"
  /\ \E now \in Times :
       store' = handleInitialData(store,
                                  [success |-> TRUE, data |-> Some(<<NormRaw>>),
                                   error |-> Null],
                                  now)
  /\ lastEvent' = Step("initial-data", Null, 1)
  /\ NormFrame

NormNext ==
  \/ NormFetch
  \/ NormUpdate
  \/ NormInitial

NormSpec == NormInit /\ [][NormNext]_vars

\* ============================================================ properties
IsAcceptedUpdate(e) == e.kind = "location-update" /\ AcceptingUpdate(e.arg)
IsAcceptedInitial(e) == e.kind = "initial-data" /\ AcceptingInitial(e.arg)
IsAcceptedFetch(e) == e.kind = "fetch-settled" /\ AcceptingFetch(e.arg.outcome)
ConnectionErrors ==
  {Some("Connection error: " \o o.message) : o \in {f \in FetchOutcomes : FailedFetch(f)}}
WebSocketErrors == {Some("WebSocket error: " \o e[1]) : e \in SocketErrors \ {Null}}

\* The record the most recent accepting event stands for.
ExpectedLatest ==
  IF hist.accepted = Null THEN Null
  ELSE LET a == hist.accepted[1] IN
       Some(CASE a.kind = "fetch" -> FetchLocation(a.raw)
              [] a.kind = "initial" -> InitialLocation(a.raw)
              [] a.kind = "update" -> UpdateLocation(a.raw))

\* C1: in every reachable state latestLocation is the record of the most
\* recently processed accepting event, in arrival order whatever the
\* records' timestamps, and it is null iff no accepting event was processed.
C1_LatestIsLastAccepted ==
  /\ latestLocation = ExpectedLatest
  /\ latestLocation = Null <=> hist.accepted = Null

\* C1 witness: an update with the older timestamp has replaced a newer reading.
C1_Witness ==
  /\ IsAcceptedUpdate(lastEvent)
  /\ allLocations # <<>>
  /\ latestLocation # Null
  /\ latestLocation[1].timestamp.m < allLocations[1].timestamp.m

\* C2: after an 'initial-data' event with success and a non-empty list of
\* length n, allLocations is the normalized list in the server's order,
\* latestLocation is its first entry, totalReceived is n and loading is false.
C2_InitialDataSnapshot ==
  IsAcceptedInitial(lastEvent) =>
    LET list == lastEvent.arg.data[1] IN
    /\ Len(allLocations) = Len(list)
    /\ \A i \in 1..Len(list) : allLocations[i] = InitialLocation(list[i])
    /\ latestLocation = Some(allLocations[1])
    /\ stats.totalReceived = Len(list)
    /\ ~loading

\* C2 witness: a snapshot of two different records has been handled.
C2_Witness ==
  /\ IsAcceptedInitial(lastEvent)
  /\ Len(lastEvent.arg.data[1]) = 2
  /\ allLocations[1] # allLocations[2]

\* C3 (as stated): immediately after each accepting event (fetch resolved
\* with a payload, non-empty 'initial-data', 'location-update' with data)
\* error is null.
C3_ErrorClearedOnSuccess ==
  (IsAcceptedFetch(lastEvent) \/ IsAcceptedInitial(lastEvent) \/ IsAcceptedUpdate(lastEvent))
    => error = Null

\* C4: once an HTTP fetch has failed, the state right after a later
\* 'location-update' event carrying data has error = null and latestLocation
\* equal to the event's normalized record.
C4_UpdateAfterFetchFailure ==
  (hist.fetchFailed /\ IsAcceptedUpdate(lastEvent)) =>
    /\ error = Null
    /\ latestLocation = Some(UpdateLocation(lastEvent.arg.data[1]))

\* C4 witness: the fetch has failed, its 'Connection error' message was
\* still the error when an update with data arrived (deps holds the error of
\* the last commit), and the update has been handled.
C4_Witness ==
  /\ hist.fetchFailed
  /\ IsAcceptedUpdate(lastEvent)
  /\ deps.error \in ConnectionErrors
  /\ error = Null

\* C5: the socket-error effect leaves a non-null error unchanged, and the
\* 'WebSocket error' message is only ever written by that effect, when error
\* is null and socketError is non-null.
C5_SocketErrorNeverOverwrites ==
  [][/\ (lastEvent'.kind = "effects" /\ error # Null) => error' = error
     /\ (error' # error /\ error' \in WebSocketErrors) =>
          (lastEvent'.kind = "effects" /\ error = Null /\ socketError # Null)]_vars

\* C5 witness: the socket-error effect has run with socketError set while a
\* connection or application error was already there.
C5_Witness ==
  /\ lastEvent.kind = "effects"
  /\ lastEvent.arg.socket
  /\ socketError # Null
  /\ deps.error # Null
  /\ deps.error \notin WebSocketErrors
  /\ error = deps.error

\* C6: while neither a fetch resolution nor an 'initial-data' event has been
\* processed, totalReceived equals the number of 'location-update' events
\* carrying data processed so far; each such event adds exactly one.
C6_CountsUpdates ==
  /\ [](hist.noInitial => stats.totalReceived = hist.nUpdates)
  /\ [][IsAcceptedUpdate(lastEvent') => stats'.totalReceived = stats.totalReceived + 1]_vars

\* C6 witness: two consecutive updates were counted with no initial data.
C6_Witness ==
  /\ hist.noInitial
  /\ hist.nUpdates >= 2
  /\ IsAcceptedUpdate(lastEvent)

\* C7 (as stated): no step lowers stats.totalReceived.
C7_TotalNeverDecreases ==
  [][stats'.totalReceived >= stats.totalReceived]_vars

\* C7 (amended): a step lowers stats.totalReceived only if it is a fetch
\* resolving with success and a payload, which sets it to 1, or an
\* 'initial-data' event with success and a non-empty list, which sets it to
\* the length of the list.
C7_TotalLoweredOnlyByReload ==
  [][stats'.totalReceived < stats.totalReceived =>
       \/ IsAcceptedFetch(lastEvent') /\ stats'.totalReceived = 1
       \/ IsAcceptedInitial(lastEvent')
            /\ stats'.totalReceived = Len(lastEvent'.arg.data[1])]_vars

\* C7 witness: an empty 'initial-data' event was handled with the counter above zero.
C7_Witness ==
  /\ lastEvent.kind = "initial-data"
  /\ lastEvent.arg.success
  /\ ~AcceptingInitial(lastEvent.arg)
  /\ stats.totalReceived >= 2

\* C8: loading is true in every state before the first terminal outcome of
\* the initial-data race (the mount fetch settling, or an 'initial-data'
\* event being handled) and false in every state after it; no step sets
\* loading back to true.
C8_LoadingUntilFirstOutcome ==
  /\ [](loading <=> ~hist.terminal)
  /\ [][~loading => ~loading']_vars

\* C8 witness: an update is handled with loading false while a refresh is in flight.
C8_Witness ==
  /\ ~loading
  /\ inFlight.refresh > 0
  /\ IsAcceptedUpdate(lastEvent)

\* C9: in every settled state one handler per event name is registered when
\* isConnected is true and none when it is false, and an event is never
\* handled more than once.
C9_ListenersFollowConnection ==
  /\ Settled => \A n \in EventNames : listeners[n] = IF isConnected THEN 1 ELSE 0
  /\ lastEvent.kind \in EventNames => lastEvent.times = 1

\* C9 witness: an event is handled once after the connection went down and
\* came up again.
C9_Witness ==
  /\ lastEvent.kind \in EventNames
  /\ lastEvent.times = 1
  /\ hist.connects >= 2

\* C10 (as stated): after a refresh() fetch resolves with success and a
\* payload, latestLocation is the fetched record, allLocations holds exactly
\* that record, totalReceived is 1 and error is null.
C10_RefreshSupplants ==
  (IsAcceptedFetch(lastEvent) /\ lastEvent.arg.fetch = "refresh") =>
    LET location == FetchLocation(lastEvent.arg.outcome.body[1].data[1]) IN
    /\ latestLocation = Some(location)
    /\ allLocations = <<location>>
    /\ stats.totalReceived = 1
    /\ error = Null

\* C11: a fetch that resolves with success and a payload applies its update
\* whatever arrived while it was in flight: right after it latestLocation and
\* allLocations hold the fetched record alone and totalReceived is 1, so with
\* several fetches in flight the one that settles last decides.
C11_LateFetchStillApplies ==
  IsAcceptedFetch(lastEvent) =>
    LET location == FetchLocation(lastEvent.arg.outcome.body[1].data[1]) IN
    /\ latestLocation = Some(location)
    /\ allLocations = <<location>>
    /\ stats.totalReceived = 1

\* C11 witness: the mount fetch resolved with a payload after a live-push
\* event had stored its data, and another fetch is still in flight.
C11_Witness ==
  /\ IsAcceptedFetch(lastEvent)
  /\ lastEvent.arg.late
  /\ inFlight.refresh > 0

UniqueIds(list) == \A i, j \in 1..Len(list) : list[i].id = list[j].id => i = j

\* C12 (as stated): no two records of allLocations share an id.
C12_NoDuplicateIds == UniqueIds(allLocations)

\* C12 (amended): a step brings two records with the same id into
\* allLocations only if it is an 'initial-data' event whose own list names
\* that id twice; no other step adds a record to the list.
C12_DuplicatesOnlyFromServerList ==
  [][(UniqueIds(allLocations) /\ ~UniqueIds(allLocations')) =>
       (IsAcceptedInitial(lastEvent') /\ ~UniqueIds(lastEvent'.arg.data[1]))]_vars

\* C12 witness: an update for the one reading in allLocations has been
\* handled and the list still names it once.
C12_Witness ==
  /\ Len(allLocations) = 1
  /\ IsAcceptedUpdate(lastEvent)
  /\ latestLocation[1].id = allLocations[1].id

IsFailedFetch(e) == e.kind = "fetch-settled" /\ FailedFetch(e.arg.outcome)
IsFailedInitial(e) == e.kind = "initial-data" /\ ~e.arg.success

\* C13: a failed HTTP fetch (rejected or not ok) sets error to
\* 'Connection error: <reason>', an 'initial-data' event with success = false
\* sets it to the event's message or the default text; both end loading and
\* leave latestLocation, allLocations and stats as they were.
C13_FailuresKeepData ==
  [][/\ IsFailedFetch(lastEvent') =>
          /\ error' = Some("Connection error: " \o lastEvent'.arg.outcome.message)
          /\ ~loading'
          /\ latestLocation' = latestLocation
          /\ allLocations' = allLocations
          /\ stats' = stats
     /\ IsFailedInitial(lastEvent') =>
          /\ error' = IF lastEvent'.arg.error \in {Null, Some("")}
                      THEN Some("Error getting initial data")
                      ELSE lastEvent'.arg.error
          /\ ~loading'
          /\ latestLocation' = latestLocation
          /\ allLocations' = allLocations
          /\ stats' = stats]_vars

\* C13 witness: a fetch has failed while the store held a reading, which is
\* still there next to the 'Connection error' message.
C13_Witness ==
  /\ IsFailedFetch(lastEvent)
  /\ error \in ConnectionErrors
  /\ latestLocation # Null
  /\ allLocations # <<>>
  /\ ~loading

\* A successful response that carries no data.
IsEmptyFetch(e) ==
  /\ e.kind = "fetch-settled"
  /\ ~FailedFetch(e.arg.outcome)
  /\ e.arg.outcome.body[1].success
  /\ e.arg.outcome.body[1].data = Null
IsEmptyInitial(e) ==
  /\ e.kind = "initial-data"
  /\ e.arg.success
  /\ ~AcceptingInitial(e.arg)

\* C14 (as stated): after a successful response without data loading is
\* false, latestLocation is null and allLocations is empty.
C14_EmptyResponseLeavesEmpty ==
  (IsEmptyFetch(lastEvent) \/ IsEmptyInitial(lastEvent)) =>
    /\ ~loading
    /\ latestLocation = Null
    /\ allLocations = <<>>

\* C14 (amended): a successful response without data ends loading and leaves
\* latestLocation, allLocations, stats and error as they were.
C14_EmptyResponseKeepsData ==
  [][(IsEmptyFetch(lastEvent') \/ IsEmptyInitial(lastEvent')) =>
       /\ ~loading'
       /\ latestLocation' = latestLocation
       /\ allLocations' = allLocations
       /\ stats' = stats
       /\ error' = error]_vars

\* C14 witness: a fetch resolved without a payload while the store held a
\* reading, and the reading is still there.
C14_Witness ==
  /\ IsEmptyFetch(lastEvent)
  /\ ~loading
  /\ latestLocation # Null

\* C15: in every settled state (all effects run) a non-null socketError
\* implies a non-null error: when an update or the start of a fetch clears
\* error while socketError is set, the socket-error effect runs again and
\* writes the 'WebSocket error' message.
C15_SocketErrorReasserted ==
  (Settled /\ socketError # Null) => error # Null

\* C15 witness: error was set at the previous commit, was cleared, and the
\* effect has written the 'WebSocket error' message again.
C15_Witness ==
  /\ lastEvent.kind = "effects"
  /\ lastEvent.arg.again
  /\ socketError # Null
  /\ error \in WebSocketErrors

\* C16: in every reachable state latestLocation = null iff
\* stats.totalReceived = 0 iff stats.lastUpdateTime = null, and a non-empty
\* allLocations implies a non-null latestLocation.
C16_HasDataIndicatorsAgree ==
  /\ latestLocation = Null <=> stats.totalReceived = 0
  /\ stats.totalReceived = 0 <=> stats.lastUpdateTime = Null
  /\ allLocations # <<>> => latestLocation # Null

\* C16 witness: the only data came from a 'location-update' event, so
\* allLocations is empty while the three indicators say there is data.
C16_Witness ==
  /\ IsAcceptedUpdate(lastEvent)
  /\ allLocations = <<>>
  /\ latestLocation # Null
  /\ stats.totalReceived > 0
  /\ stats.lastUpdateTime # Null

\* C17: a 'location-update' event leaves allLocations and loading unchanged
\* (the new record is not appended, an update that arrives first leaves
\* loading true), and an event without a data field changes nothing.
C17_UpdateFrame ==
  [][lastEvent'.kind = "location-update" =>
       /\ allLocations' = allLocations
       /\ loading' = loading
       /\ ~AcceptingUpdate(lastEvent'.arg) => store' = store]_vars

\* C17 witness: after an update latestLocation is not a member of the
\* non-empty allLocations and totalReceived exceeds its length.
C17_Witness ==
  /\ IsAcceptedUpdate(lastEvent)
  /\ allLocations # <<>>
  /\ \A i \in 1..Len(allLocations) : allLocations[i] # latestLocation[1]
  /\ stats.totalReceived > Len(allLocations)

\* The mount-time fetch has been issued and has settled.
MountFetchSettled == mounted /\ inFlight.mount = 0

\* C18: once the mount-time fetch has settled, with or without a payload,
\* loading becomes false, whatever live-push events and connection changes
\* are interleaved.
C18_SettledFetchEndsLoading == MountFetchSettled ~> ~loading

\* C18 witness: the mount fetch was rejected after the connection had come
\* up, and loading is false.
C18_Witness ==
  /\ IsFailedFetch(lastEvent)
  /\ lastEvent.arg.fetch = "mount"
  /\ MountFetchSettled
  /\ hist.connects >= 1
  /\ ~loading

\* C19: the view is chosen with the precedence loading > error > has-data >
\* no-data: the latest location is displayed iff loading is false, error is
\* null and latestLocation is non-null, and a non-null error with loading
\* false shows the error view even when latestLocation holds a record.
C19_ViewPrecedence ==
  /\ View(store) = "loading" <=> loading
  /\ View(store) = "error" <=> (~loading /\ error # Null)
  /\ View(store) = "has-data" <=> (~loading /\ error = Null /\ latestLocation # Null)
  /\ View(store) = "no-data" <=> (~loading /\ error = Null /\ latestLocation = Null)

\* C19 witness: the error view is shown while latestLocation holds a record.
C19_Witness ==
  /\ View(store) = "error"
  /\ ~loading
  /\ latestLocation # Null

\* C20: whichever path a raw record takes (HTTP fetch, 'initial-data',
\* 'location-update'), the stored record is the same, field for field: id
\* and created_at as received, latitude and longitude float-parsed, timestamp
\* integer-parsed, formattedDate formatted from the parsed timestamp.
C20_SameNormalization ==
  lastEvent.kind \in {"fetch-settled", "location-update", "initial-data"} =>
    /\ latestLocation # Null
    /\ LET rec == latestLocation[1] IN
       /\ rec = FetchLocation(NormRaw)
       /\ rec = UpdateLocation(NormRaw)
       /\ rec = InitialLocation(NormRaw)
       /\ rec.id = NormRaw.id
       /\ rec.created_at = NormRaw.created_at
       /\ rec.latitude = parseFloat(NormRaw.latitude)
       /\ rec.longitude = parseFloat(NormRaw.longitude)
       /\ rec.timestamp = parseInt(NormRaw.timestamp_value)
       /\ rec.formattedDate = toLocaleString(rec.timestamp)
    /\ lastEvent.kind # "location-update" => allLocations = latestLocation

\* C20 witness: a record whose timestamp text has a fraction and whose
\* latitude has no digit went through the 'initial-data' path.
C20_Witness ==
  /\ lastEvent.kind = "initial-data"
  /\ NormRaw.timestamp_value = <<"1", "5", "0", "0", ".", "7">>
  /\ NormRaw.latitude = <<"a", "b", "c">>
  /\ latestLocation # Null
  /\ latestLocation[1].timestamp = Num(1500, 0)
  /\ latestLocation[1].latitude = NaN

====
